---- MODULE Spec2Model ----
(***************************************************************************)
(* Model of the four variants of the POST /webhook/cancel-subscription     *)
(* handler of ghl-webhook:                                                 *)
(*   "crmLinked"    src/unnamed/part_002  (v1, subscriptions kept in GHL)  *)
(*   "customField"  src/unnamed/part_001  (v2, named Stripe custom field)  *)
(*   "flagGated"    src/index.js          (v3, cancelInStripe flag, grace) *)
(*   "alwaysCancel" src/unnamed/part_000  (v4, always cancel, grace)       *)
(* One handler run is a record h; every await of the handler is a point    *)
(* where the run waits for the reply of the remote system, and one action  *)
(* consumes the reply and runs the handler up to its next await or to its  *)
(* response.  runs and inbox hold the handler runs of several requests     *)
(* served at once by one process and the replies each of them received.    *)
(***************************************************************************)
EXTENDS Integers, Sequences, FiniteSets, TLC

VARIABLES h, runs, inbox

vars == <<h, runs, inbox>>

(***************************************************************************)
(* Bounds of the explored inputs.                                          *)
(***************************************************************************)
MaxSubs == 2

MaxFields == 2

(***************************************************************************)
(* Program constants.                                                      *)
(***************************************************************************)
SecondsPerDay == 60 * 60 * 24

MillisPerSecond == 1000

Variants == {"crmLinked", "customField", "flagGated", "alwaysCancel"}

GraceVariants == {"flagGated", "alwaysCancel"}

StripeVariants == {"customField", "flagGated", "alwaysCancel"}

(***************************************************************************)
(* Strings whose prefix the code inspects are sequences of characters.     *)
(***************************************************************************)
CusPrefix == <<"c", "u", "s", "_">>

CusA == <<"c", "u", "s", "_", "A">>

CusB == <<"c", "u", "s", "_", "B">>

Hello == <<"h", "i">>

EmptyString == <<>>

StartsWith(s, p) == Len(s) >= Len(p) /\ SubSeq(s, 1, Len(p)) = p

Has(r, f) == f \in DOMAIN r

NullValue == [null |-> TRUE]

(***************************************************************************)
(* Inbound requests.  A body field that is absent from the JSON body is    *)
(* absent from the record.                                                 *)
(***************************************************************************)
BaseRequest == [method |-> "POST"]

WithField(r, f, v) == [x \in DOMAIN r \cup {f} |-> IF x = f THEN v ELSE r[x]]

OptField(rs, f, vs) == rs \cup {WithField(r, f, v) : r \in rs, v \in vs}

CustomerIds == {"", "contact_1"}

SubscriptionIds == {"", "sub_explicit"}

Requests(variant) ==
    LET withCustomer == OptField({BaseRequest}, "customerId", CustomerIds)
    IN  CASE variant = "crmLinked" -> OptField(withCustomer, "subscriptionId", SubscriptionIds)
          [] variant = "flagGated" -> OptField(withCustomer, "cancelInStripe", BOOLEAN)
          [] OTHER -> withCustomer

(***************************************************************************)
(* Replies of the remote systems as axios delivers them: a 2xx response    *)
(* with its data, an error carrying the response of a non-2xx status, or   *)
(* an error without a response (network failure).                          *)
(***************************************************************************)
OkReply(data) == [ok |-> TRUE, status |-> 200, data |-> data]

HttpError(s) == [ok |-> FALSE, status |-> s, message |-> "Request failed with status code"]

NetworkError == [ok |-> FALSE, message |-> "Network Error"]

ErrorReplies == {HttpError(404), HttpError(500), NetworkError}

MalformedData == [traceId |-> "t"]

SeqsUpTo(S, n) == UNION {[1..k -> S] : k \in 0..n}

CustomFieldValues ==
    { [id |-> "Stripe Customer Id", key |-> "contact.stripe", type |-> "string", value |-> CusA],
      [id |-> "f2", key |-> "stripe_customer_id", type |-> "string", value |-> CusB],
      [id |-> "f3", key |-> "notes", type |-> "string", value |-> Hello],
      [id |-> "f4", key |-> "empty"],
      [id |-> "f5", key |-> "age", type |-> "number", value |-> <<"4", "2">>],
      [id |-> "Stripe Customer Id", key |-> "blank", type |-> "string", value |-> EmptyString] }

Contacts ==
    LET bare == {[id |-> "contact_1"]}
        withFields == OptField(bare, "customFields", SeqsUpTo(CustomFieldValues, MaxFields))
    IN  OptField(withFields, "Stripe Customer Id", {CusB})

ContactReplies ==
    {OkReply([traceId |-> "t", contact |-> c]) : c \in Contacts}
        \cup {OkReply(MalformedData)} \cup ErrorReplies

SubIds == <<"sub_1", "sub_2", "sub_3", "sub_4">>

CancellableStatusSet == {"active", "trialing", "past_due", "unpaid", "incomplete"}

Statuses == CancellableStatusSet \cup {"canceled"}

Nows == {200000, 200001}

PeriodEnds == {113600, 200000, 200001, 286400}

StripeSubs == OptField([id : {"?"}, status : Statuses], "current_period_end", PeriodEnds)

GhlSubs == [id : {"?"}, status : Statuses]

Orders == [id : {"?"}, status : {"active", "incomplete", "canceled"}, recurring : BOOLEAN]

Numbered(list) == [i \in DOMAIN list |-> [list[i] EXCEPT !.id = SubIds[i]]]

Lists(S) == {Numbered(l) : l \in SeqsUpTo(S, MaxSubs)}

StripeListReplies ==
    {OkReply([object |-> "list", data |-> l]) : l \in Lists(StripeSubs)}
        \cup {OkReply(MalformedData)} \cup ErrorReplies

GhlListReplies ==
    {OkReply([traceId |-> "t", subscriptions |-> l]) : l \in Lists(GhlSubs)}
        \cup {OkReply(MalformedData)} \cup ErrorReplies

OrderReplies ==
    {OkReply([traceId |-> "t", orders |-> l]) : l \in Lists(Orders)}
        \cup {OkReply(MalformedData)} \cup ErrorReplies

CancelReplies == {OkReply([status |-> "canceled"]), HttpError(404), NetworkError}

(***************************************************************************)
(* Outcome of an async helper: a returned value, a returned undefined      *)
(* (no value field) or a thrown error.                                     *)
(***************************************************************************)
Returned(v) == [thrown |-> FALSE, value |-> v]

ReturnedUndefined == [thrown |-> FALSE]

Thrown(e) == [thrown |-> TRUE, error |-> e]

TypeError == [ok |-> FALSE, message |-> "Cannot read properties of undefined"]

(***************************************************************************)
(* The wrappers of the outbound calls, applied to the reply of the call.   *)
(***************************************************************************)
getGHLContact(reply) ==
    IF reply.ok
    THEN IF Has(reply.data, "contact") THEN Returned(reply.data.contact) ELSE ReturnedUndefined
    ELSE Thrown(reply)

verifyCustomer(reply) ==
    IF reply.ok
    THEN Returned(reply.status = 200 /\ Has(reply.data, "contact"))
    ELSE IF Has(reply, "status") /\ reply.status = 404
         THEN Returned(FALSE)
         ELSE Thrown(reply)

getStripeSubscriptions(reply) ==
    IF reply.ok
    THEN IF Has(reply.data, "data") THEN Returned(reply.data.data) ELSE Thrown(TypeError)
    ELSE Thrown(reply)

NeedsAlternative == [thrown |-> FALSE, alternative |-> TRUE]

getSubscriptionsByCustomer(reply) ==
    IF reply.ok
    THEN IF Has(reply.data, "subscriptions") THEN Returned(reply.data.subscriptions) ELSE Returned(<<>>)
    ELSE IF Has(reply, "status") /\ reply.status = 404
         THEN NeedsAlternative
         ELSE Thrown(reply)

getSubscriptionsAlternative(reply) ==
    IF reply.ok
    THEN LET orders == IF Has(reply.data, "orders") THEN reply.data.orders ELSE <<>>
         IN  Returned(SelectSeq(orders, LAMBDA order : order.recurring = TRUE))
    ELSE Returned(<<>>)

ErrorCodeOf(reply, result) ==
    IF Has(reply, "status") THEN WithField(result, "errorCode", reply.status) ELSE result

cancelStripeSubscription(reply) ==
    IF reply.ok
    THEN [success |-> TRUE, message |-> "Subscription canceled successfully in Stripe",
          stripeStatus |-> reply.data.status]
    ELSE ErrorCodeOf(reply, [success |-> FALSE, message |-> reply.message])

cancelSingleSubscription(reply) ==
    IF reply.ok
    THEN [success |-> TRUE, message |-> "Subscription canceled successfully"]
    ELSE ErrorCodeOf(reply, [success |-> FALSE, message |-> reply.message])

cancelResult(variant, reply) ==
    IF variant = "crmLinked" THEN cancelSingleSubscription(reply) ELSE cancelStripeSubscription(reply)

(***************************************************************************)
(* Resolution of the Stripe customer id from the contact.                  *)
(***************************************************************************)
FirstIndex(hits) ==
    IF hits = {} THEN 0 ELSE CHOOSE i \in hits : \A j \in hits : i <= j

Truthy(field) == Has(field, "value") /\ field.value # EmptyString

ScanCustomFields(contact) ==
    IF Has(contact, "customFields")
    THEN LET fields == contact.customFields
             i == FirstIndex({k \in DOMAIN fields :
                                 Truthy(fields[k]) /\ fields[k].type = "string"
                                     /\ StartsWith(fields[k].value, CusPrefix)})
         IN  IF i = 0 THEN EmptyString ELSE fields[i].value
    ELSE EmptyString

NamedCustomField(contact) ==
    LET i == IF Has(contact, "customFields")
             THEN FirstIndex({k \in DOMAIN contact.customFields :
                                 \/ contact.customFields[k].id = "Stripe Customer Id"
                                 \/ contact.customFields[k].key = "stripe_customer_id"})
             ELSE 0
    IN  IF i # 0 /\ Truthy(contact.customFields[i])
        THEN contact.customFields[i].value
        ELSE IF Has(contact, "Stripe Customer Id") THEN contact["Stripe Customer Id"] ELSE EmptyString

stripeCustomerIdOf(variant, contact) ==
    IF variant = "customField" THEN NamedCustomField(contact) ELSE ScanCustomFields(contact)

(***************************************************************************)
(* Status filters and the grace-period arithmetic.                         *)
(***************************************************************************)
isActive(sub) ==
    \/ sub.status = "active"
    \/ sub.status = "trialing"
    \/ sub.status = "past_due"
    \/ sub.status = "unpaid"
    \/ sub.status = "incomplete"

shouldCancelCrmNoUnpaid(sub) == sub.status \in {"active", "trialing", "past_due"}

shouldCancelCrm(sub) ==
    \/ sub.status = "active"
    \/ sub.status = "trialing"
    \/ sub.status = "past_due"
    \/ sub.status = "unpaid"

shouldCancelWithCanceled(sub) ==
    sub.status \in {"active", "trialing", "past_due", "unpaid", "incomplete", "canceled"}

shouldCancelStripe(sub) ==
    \/ sub.status = "active"
    \/ sub.status = "trialing"
    \/ sub.status = "past_due"
    \/ sub.status = "unpaid"
    \/ sub.status = "incomplete"

shouldCancel(variant, sub) ==
    IF variant = "crmLinked" THEN shouldCancelCrm(sub) ELSE shouldCancelStripe(sub)

Ceil(a, b) == -((-a) \div b)

Max(a, b) == IF a >= b THEN a ELSE b

daysLeftFloor(periodEnd, now) == (periodEnd - now) \div SecondsPerDay

daysLeft(periodEnd, now) == Ceil(periodEnd - now, SecondsPerDay)

toISOString(millis) == [iso8601 |-> millis]

HasPeriodEnd(sub) == Has(sub, "current_period_end") /\ sub.current_period_end # 0

GraceStepNonStrict(acc, sub, now) ==
    IF isActive(sub) /\ HasPeriodEnd(sub)
    THEN IF daysLeft(sub.current_period_end, now) >= acc.accessDaysRemaining
         THEN [accessDaysRemaining |-> daysLeft(sub.current_period_end, now),
               accessEndDate |-> toISOString(sub.current_period_end * MillisPerSecond)]
         ELSE acc
    ELSE acc

GraceStep(acc, sub, now) ==
    IF isActive(sub) /\ HasPeriodEnd(sub)
    THEN IF daysLeft(sub.current_period_end, now) > acc.accessDaysRemaining
         THEN [accessDaysRemaining |-> daysLeft(sub.current_period_end, now),
               accessEndDate |-> toISOString(sub.current_period_end * MillisPerSecond)]
         ELSE acc
    ELSE acc

RECURSIVE GraceLoop(_, _, _)
GraceLoop(subs, n, now) ==
    IF n = 0
    THEN [accessDaysRemaining |-> 0, accessEndDate |-> NullValue]
    ELSE GraceStep(GraceLoop(subs, n - 1, now), subs[n], now)

GracePeriod(subs, now) == GraceLoop(subs, Len(subs), now)

(***************************************************************************)
(* The handler.  h.calls is the log of the outbound calls issued so far,   *)
(* h.replies the log of the kinds of the replies received to them, and     *)
(* h.responses the log of the HTTP responses sent.                         *)
(***************************************************************************)
NewHandler(variant, req) ==
    [variant |-> variant, req |-> req, pc |-> "start",
     customerId |-> "", subscriptionId |-> "", cancelInStripe |-> FALSE,
     stripeCustomerId |-> EmptyString, subscriptions |-> <<>>, now |-> 0,
     accessDaysRemaining |-> 0, accessEndDate |-> NullValue,
     listed |-> FALSE, idx |-> 0, results |-> <<>>,
     calls |-> <<>>, replies |-> <<>>, responses |-> <<>>]

Respond(hh, response) ==
    [hh EXCEPT !.responses = Append(@, response), !.pc = "done"]

Issue(hh, call, pc) ==
    [hh EXCEPT !.calls = Append(@, call), !.pc = pc]

OutboundCall(api, op, arg) == [api |-> api, op |-> op, arg |-> arg]

BadRequest ==
    [status |-> 400, success |-> FALSE, error |-> "customerId is required in the request body"]

NotFound(error) == [status |-> 404, success |-> FALSE, error |-> error]

InternalError(error) ==
    [status |-> 500, success |-> FALSE, error |-> "Internal server error", message |-> error.message]

DefaultCancelInStripeTrue == TRUE

DefaultCancelInStripe == FALSE

cancelInStripeOf(req) ==
    IF Has(req, "cancelInStripe") THEN req.cancelInStripe ELSE DefaultCancelInStripe

MissingCustomerIdAbsentOnly(req) == ~Has(req, "customerId")

MissingCustomerId(req) == ~Has(req, "customerId") \/ req.customerId = ""

HasSubscriptionId(req) == Has(req, "subscriptionId") /\ req.subscriptionId # ""

performsCancellationAlways(hh) == TRUE

performsCancellation(hh) == hh.variant # "flagGated" \/ hh.cancelInStripe

CancelApi(variant) == IF variant = "crmLinked" THEN "ghl" ELSE "stripe"

OnRequestNoReturn(hh) ==
    IF MissingCustomerId(hh.req)
    THEN Issue(Respond(hh, BadRequest), OutboundCall("ghl", "getContact", ""),
               IF hh.variant = "crmLinked" THEN "awaitVerify" ELSE "awaitContact")
    ELSE LET h1 == [hh EXCEPT !.customerId = hh.req.customerId,
                              !.cancelInStripe = IF hh.variant = "flagGated"
                                                 THEN cancelInStripeOf(hh.req) ELSE FALSE]
         IN  IF hh.variant = "crmLinked" /\ HasSubscriptionId(hh.req)
             THEN Issue([h1 EXCEPT !.subscriptionId = hh.req.subscriptionId],
                        OutboundCall("ghl", "cancelSubscription", hh.req.subscriptionId),
                        "awaitSingle")
             ELSE Issue(h1, OutboundCall("ghl", "getContact", h1.customerId),
                        IF hh.variant = "crmLinked" THEN "awaitVerify" ELSE "awaitContact")

(* Validation and the first outbound call. *)
OnRequest(hh) ==
    IF MissingCustomerId(hh.req)
    THEN Respond(hh, BadRequest)
    ELSE LET h1 == [hh EXCEPT !.customerId = hh.req.customerId,
                              !.cancelInStripe = IF hh.variant = "flagGated"
                                                 THEN cancelInStripeOf(hh.req) ELSE FALSE]
         IN  IF hh.variant = "crmLinked" /\ HasSubscriptionId(hh.req)
             THEN Issue([h1 EXCEPT !.subscriptionId = hh.req.subscriptionId],
                        OutboundCall("ghl", "cancelSubscription", hh.req.subscriptionId),
                        "awaitSingle")
             ELSE Issue(h1, OutboundCall("ghl", "getContact", h1.customerId),
                        IF hh.variant = "crmLinked" THEN "awaitVerify" ELSE "awaitContact")

OnSingleMultiStatus(hh, reply) ==
    LET result == cancelSingleSubscription(reply)
    IN  Respond(hh, [status |-> IF result.success THEN 200 ELSE 207,
                     success |-> result.success, message |-> result.message,
                     customerId |-> hh.customerId, subscriptionId |-> hh.subscriptionId])

(* crmLinked: the reply of the single explicit cancellation. *)
OnSingle(hh, reply) ==
    LET result == cancelSingleSubscription(reply)
    IN  Respond(hh, [status |-> IF result.success THEN 200 ELSE 500,
                     success |-> result.success, message |-> result.message,
                     customerId |-> hh.customerId, subscriptionId |-> hh.subscriptionId])

(* The aggregation and the final response of each variant.  The string     *)
(* 'skipped' that replaces the results in calculate-only mode is a list    *)
(* holding that one marker.                                                *)
Skipped == <<[skipped |-> TRUE]>>

allSuccessfulNonEmpty(hh) ==
    Len(hh.results) > 0 /\ \A i \in DOMAIN hh.results : hh.results[i].success

allSuccessful(hh) ==
    IF hh.variant \in GraceVariants
    THEN Len(hh.results) = 0 \/ \A i \in DOMAIN hh.results : hh.results[i].success
    ELSE \A i \in DOMAIN hh.results : hh.results[i].success

canceledCountAll(results) == Len(results)

canceledCount(results) == Cardinality({i \in DOMAIN results : results[i].success})

Aggregate(hh) ==
    LET ok == allSuccessful(hh)
        counts == [status |-> IF ok THEN 200 ELSE 207, success |-> ok,
                   customerId |-> hh.customerId,
                   totalSubscriptions |-> Len(hh.subscriptions)]
        grace == [accessDaysRemaining |-> Max(0, hh.accessDaysRemaining),
                  accessEndDate |-> hh.accessEndDate,
                  revokeAccessIn |-> Max(0, hh.accessDaysRemaining),
                  waitDays |-> Max(0, hh.accessDaysRemaining)]
        Merge(a, b) == [x \in DOMAIN a \cup DOMAIN b |-> IF x \in DOMAIN b THEN b[x] ELSE a[x]]
    IN  CASE hh.variant = "crmLinked" ->
               Respond(hh, Merge(counts, [canceledCount |-> canceledCount(hh.results),
                                          results |-> hh.results]))
          [] hh.variant = "customField" ->
               IF Len(hh.results) = 0
               THEN Respond(hh, [status |-> 200, success |-> TRUE,
                                 message |-> "No active subscriptions to cancel",
                                 totalSubscriptions |-> Len(hh.subscriptions),
                                 canceledCount |-> 0])
               ELSE Respond(hh, Merge(counts, [canceledCount |-> canceledCount(hh.results),
                                               results |-> hh.results,
                                               stripeCustomerId |-> hh.stripeCustomerId]))
          [] hh.variant = "alwaysCancel" ->
               Respond(hh, Merge(Merge(counts, grace),
                                 [canceledCount |-> canceledCount(hh.results),
                                  results |-> hh.results,
                                  stripeCustomerId |-> hh.stripeCustomerId]))
          [] hh.variant = "flagGated" ->
               Respond(hh, Merge(Merge(counts, grace),
                                 [canceledCount |-> IF hh.cancelInStripe
                                                    THEN canceledCount(hh.results) ELSE 0,
                                  mode |-> IF hh.cancelInStripe
                                           THEN "cancel-and-calculate" ELSE "calculate-only",
                                  stripeCancellation |-> IF hh.cancelInStripe
                                                         THEN hh.results ELSE Skipped,
                                  stripeCustomerId |-> hh.stripeCustomerId]))

CancelLoopStopOnFailure(hh, from) ==
    LET todo == {i \in from..Len(hh.subscriptions) : shouldCancel(hh.variant, hh.subscriptions[i])}
        failed == \E k \in DOMAIN hh.results : ~hh.results[k].success
    IN  IF performsCancellation(hh) /\ todo # {} /\ ~failed
        THEN LET i == CHOOSE k \in todo : \A j \in todo : k <= j
             IN  Issue([hh EXCEPT !.idx = i],
                       OutboundCall(CancelApi(hh.variant), "cancelSubscription", hh.subscriptions[i].id),
                       "awaitCancel")
        ELSE Aggregate(hh)

RECURSIVE IssueAll(_, _, _)
IssueAll(hh, todo, pc) ==
    IF todo = {} THEN hh
    ELSE LET i == CHOOSE k \in todo : \A j \in todo : k <= j
         IN  IssueAll(Issue(hh, OutboundCall(CancelApi(hh.variant), "cancelSubscription",
                                             hh.subscriptions[i].id), pc),
                      todo \ {i}, pc)

CancelLoopParallel(hh, from) ==
    LET todo == {i \in from..Len(hh.subscriptions) : shouldCancel(hh.variant, hh.subscriptions[i])}
    IN  IF performsCancellation(hh) /\ todo # {}
        THEN IssueAll([hh EXCEPT !.idx = CHOOSE k \in todo : \A j \in todo : k <= j],
                      todo, "awaitCancel")
        ELSE Aggregate(hh)

(* The cancellation loop from position `from' of the listing: up to the    *)
(* next cancellation call, or to the response when none is left.           *)
CancelLoop(hh, from) ==
    LET todo == {i \in from..Len(hh.subscriptions) : shouldCancel(hh.variant, hh.subscriptions[i])}
    IN  IF performsCancellation(hh) /\ todo # {}
        THEN LET i == CHOOSE k \in todo : \A j \in todo : k <= j
             IN  Issue([hh EXCEPT !.idx = i],
                       OutboundCall(CancelApi(hh.variant), "cancelSubscription", hh.subscriptions[i].id),
                       "awaitCancel")
        ELSE Aggregate(hh)

OnCancelRegrace(hh, reply) ==
    LET sub == hh.subscriptions[hh.idx]
        result == cancelResult(hh.variant, reply)
        entry == [x \in DOMAIN result \cup {"subscriptionId", "status"} |->
                     IF x \in DOMAIN result THEN result[x]
                     ELSE IF x = "subscriptionId" THEN sub.id ELSE sub.status]
        results == Append(hh.results, entry)
        Remains(s) == \A k \in DOMAIN results : results[k].subscriptionId = s.id => ~results[k].success
        g == GracePeriod(SelectSeq(hh.subscriptions, Remains), hh.now)
    IN  CancelLoop([hh EXCEPT !.results = results,
                              !.accessDaysRemaining = g.accessDaysRemaining,
                              !.accessEndDate = g.accessEndDate], hh.idx + 1)

OnCancelRetry(hh, reply) ==
    LET sub == hh.subscriptions[hh.idx]
        result == cancelResult(hh.variant, reply)
        entry == [x \in DOMAIN result \cup {"subscriptionId", "status"} |->
                     IF x \in DOMAIN result THEN result[x]
                     ELSE IF x = "subscriptionId" THEN sub.id ELSE sub.status]
        attempts == Cardinality({i \in DOMAIN hh.calls : hh.calls[i].op = "cancelSubscription"
                                                          /\ hh.calls[i].arg = sub.id})
    IN  IF ~result.success /\ attempts < 2
        THEN Issue(hh, OutboundCall(CancelApi(hh.variant), "cancelSubscription", sub.id), "awaitCancel")
        ELSE CancelLoop([hh EXCEPT !.results = Append(@, entry)], hh.idx + 1)

OnCancel(hh, reply) ==
    LET sub == hh.subscriptions[hh.idx]
        result == cancelResult(hh.variant, reply)
        entry == [x \in DOMAIN result \cup {"subscriptionId", "status"} |->
                     IF x \in DOMAIN result THEN result[x]
                     ELSE IF x = "subscriptionId" THEN sub.id ELSE sub.status]
    IN  CancelLoop([hh EXCEPT !.results = Append(@, entry)], hh.idx + 1)

OnSubscriptionsNoReturn(hh, subs, now, error) ==
    LET h1 == [hh EXCEPT !.subscriptions = subs, !.listed = TRUE]
    IN  IF Len(subs) = 0 THEN CancelLoop(Respond(h1, NotFound(error)), 1) ELSE CancelLoop(h1, 1)

OnSubscriptionsNoEmptyCheck(hh, subs, now, error) ==
    CancelLoop([hh EXCEPT !.subscriptions = subs, !.listed = TRUE], 1)

(* After the listing: empty check, grace period, then the loop. *)
OnSubscriptions(hh, subs, now, error) ==
    IF Len(subs) = 0
    THEN Respond([hh EXCEPT !.listed = TRUE], NotFound(error))
    ELSE LET h1 == [hh EXCEPT !.subscriptions = subs, !.listed = TRUE]
             g == GracePeriod(subs, now)
             h2 == IF hh.variant \in GraceVariants
                   THEN [h1 EXCEPT !.now = now,
                                   !.accessDaysRemaining = g.accessDaysRemaining,
                                   !.accessEndDate = g.accessEndDate]
                   ELSE h1
         IN  CancelLoop(h2, 1)

MissingStripeIdError(variant) ==
    IF variant = "customField"
    THEN "Stripe Customer ID not found in GoHighLevel contact. Please ensure the \"Stripe Customer Id\" custom field is populated."
    ELSE "Stripe Customer ID not found in GoHighLevel contact. Please ensure a custom field contains a Stripe Customer ID (starts with cus_)."

OnContactNoIdCheck(hh, reply) ==
    LET r == getGHLContact(reply)
    IN  IF r.thrown THEN Respond(hh, InternalError(r.error))
        ELSE IF ~Has(r, "value") THEN Respond(hh, NotFound("Contact not found in GoHighLevel"))
        ELSE Issue([hh EXCEPT !.stripeCustomerId = stripeCustomerIdOf(hh.variant, r.value)],
                   OutboundCall("stripe", "listSubscriptions", stripeCustomerIdOf(hh.variant, r.value)),
                   "awaitList")

(* Stripe variants: the reply of the contact lookup. *)
OnContact(hh, reply) ==
    LET r == getGHLContact(reply)
    IN  IF r.thrown THEN Respond(hh, InternalError(r.error))
        ELSE IF ~Has(r, "value") THEN Respond(hh, NotFound("Contact not found in GoHighLevel"))
        ELSE LET id == stripeCustomerIdOf(hh.variant, r.value)
             IN  IF id = EmptyString
                 THEN Respond(hh, NotFound(MissingStripeIdError(hh.variant)))
                 ELSE Issue([hh EXCEPT !.stripeCustomerId = id],
                            OutboundCall("stripe", "listSubscriptions", id), "awaitList")

(* Stripe variants: the reply of the subscription listing. *)
OnStripeList(hh, reply, now) ==
    LET r == getStripeSubscriptions(reply)
    IN  IF r.thrown THEN Respond(hh, InternalError(r.error))
        ELSE OnSubscriptions(hh, r.value, now, "No subscriptions found for this customer in Stripe")

(* crmLinked: the reply of the customer verification. *)
OnVerify(hh, reply) ==
    LET r == verifyCustomer(reply)
    IN  IF r.thrown THEN Respond(hh, InternalError(r.error))
        ELSE IF ~r.value THEN Respond(hh, NotFound("Customer not found in GoHighLevel"))
        ELSE Issue(hh, OutboundCall("ghl", "listSubscriptions", hh.customerId), "awaitGhlList")

(* crmLinked: the reply of the subscription listing. *)
OnGhlList(hh, reply) ==
    LET r == getSubscriptionsByCustomer(reply)
    IN  IF r.thrown THEN Respond(hh, InternalError(r.error))
        ELSE IF Has(r, "alternative")
        THEN Issue(hh, OutboundCall("ghl", "listOrders", hh.customerId), "awaitOrders")
        ELSE OnSubscriptions(hh, r.value, 0, "No subscriptions found for this customer")

(* crmLinked: the reply of the fallback listing through the orders. *)
OnOrders(hh, reply) ==
    OnSubscriptions(hh, getSubscriptionsAlternative(reply).value, 0,
                    "No subscriptions found for this customer")

(***************************************************************************)
(* The state machine of one request.                                       *)
(***************************************************************************)
ReplyKind(reply) ==
    IF reply.ok
    THEN IF DOMAIN reply.data = {"traceId"} THEN "empty" ELSE "ok"
    ELSE IF Has(reply, "status")
         THEN IF reply.status = 404 THEN "notFound" ELSE "httpError"
         ELSE "networkError"

Consume(hh, reply) == [hh EXCEPT !.replies = Append(@, ReplyKind(reply))]

Init ==
    /\ \E variant \in Variants : \E req \in Requests(variant) : h = NewHandler(variant, req)
    /\ runs = <<>>
    /\ inbox = <<>>

Receive ==
    /\ h.pc = "start"
    /\ h' = OnRequest(h)
    /\ UNCHANGED <<runs, inbox>>

ContactReply ==
    /\ h.pc = "awaitContact"
    /\ \E reply \in ContactReplies : h' = OnContact(Consume(h, reply), reply)
    /\ UNCHANGED <<runs, inbox>>

StripeListReply ==
    /\ h.pc = "awaitList"
    /\ \E reply \in StripeListReplies : \E now \in Nows : h' = OnStripeList(Consume(h, reply), reply, now)
    /\ UNCHANGED <<runs, inbox>>

VerifyReply ==
    /\ h.pc = "awaitVerify"
    /\ \E reply \in ContactReplies : h' = OnVerify(Consume(h, reply), reply)
    /\ UNCHANGED <<runs, inbox>>

GhlListReply ==
    /\ h.pc = "awaitGhlList"
    /\ \E reply \in GhlListReplies : h' = OnGhlList(Consume(h, reply), reply)
    /\ UNCHANGED <<runs, inbox>>

OrdersReply ==
    /\ h.pc = "awaitOrders"
    /\ \E reply \in OrderReplies : h' = OnOrders(Consume(h, reply), reply)
    /\ UNCHANGED <<runs, inbox>>

CancelReply ==
    /\ h.pc = "awaitCancel"
    /\ \E reply \in CancelReplies : h' = OnCancel(Consume(h, reply), reply)
    /\ UNCHANGED <<runs, inbox>>

SingleReply ==
    /\ h.pc = "awaitSingle"
    /\ \E reply \in CancelReplies : h' = OnSingle(Consume(h, reply), reply)
    /\ UNCHANGED <<runs, inbox>>

Next ==
    \/ Receive
    \/ ContactReply
    \/ StripeListReply
    \/ VerifyReply
    \/ GhlListReply
    \/ OrdersReply
    \/ CancelReply
    \/ SingleReply

Spec == Init /\ [][Next]_vars

TypeOK == h.pc \in {"start", "awaitContact", "awaitList", "awaitVerify", "awaitGhlList",
                    "awaitOrders", "awaitCancel", "awaitSingle", "done"}

(***************************************************************************)
(* Several requests served at once by one process running one variant.     *)
(* The handler awaits every outbound call, so the runs interleave at the   *)
(* awaits: a step is the arrival of one request or of one reply, and it    *)
(* runs that handler alone up to its next await.  The locals of a run      *)
(* (customerId, subscriptions, results, ...) are declared inside the       *)
(* handler; the bindings of the module are constants.                      *)
(***************************************************************************)
NumRequests == 2

ConcRequests(variant) ==
    LET plain == WithField(BaseRequest, "customerId", "contact_1")
    IN  CASE variant = "crmLinked" -> {BaseRequest, plain, WithField(plain, "subscriptionId", "sub_explicit")}
          [] variant = "flagGated" -> {BaseRequest, plain, WithField(plain, "cancelInStripe", TRUE)}
          [] OTHER -> {BaseRequest, plain}

ConcContact ==
    [id |-> "contact_1",
     customFields |-> <<[id |-> "Stripe Customer Id", key |-> "contact.stripe",
                         type |-> "string", value |-> CusA]>>]

ConcLists ==
    { <<[id |-> "sub_1", status |-> "active", current_period_end |-> 286400],
        [id |-> "sub_2", status |-> "past_due", current_period_end |-> 200001]>>,
      <<[id |-> "sub_3", status |-> "canceled", current_period_end |-> 286400],
        [id |-> "sub_4", status |-> "active", current_period_end |-> 200001]>> }

ConcNows == {200000}

ConcOrders ==
    <<[id |-> "sub_1", status |-> "active", recurring |-> TRUE],
      [id |-> "sub_2", status |-> "active", recurring |-> FALSE]>>

RepliesFor(pc) ==
    CASE pc = "awaitContact" -> {OkReply([traceId |-> "t", contact |-> ConcContact]), NetworkError}
      [] pc = "awaitVerify" -> {OkReply([traceId |-> "t", contact |-> ConcContact]), HttpError(404)}
      [] pc = "awaitList" -> {OkReply([object |-> "list", data |-> l]) : l \in ConcLists} \cup {HttpError(500)}
      [] pc = "awaitGhlList" -> {OkReply([traceId |-> "t", subscriptions |-> l]) : l \in ConcLists}
                                   \cup {HttpError(404)}
      [] pc = "awaitOrders" -> {OkReply([traceId |-> "t", orders |-> ConcOrders]), NetworkError}
      [] pc = "awaitCancel" -> {OkReply([status |-> "canceled"]), NetworkError}
      [] pc = "awaitSingle" -> {OkReply([status |-> "canceled"]), HttpError(404)}
      [] OTHER -> {}

(* The continuation of a run at the await it is waiting at. *)
Dispatch(hh, reply, now) ==
    CASE hh.pc = "awaitContact" -> OnContact(Consume(hh, reply), reply)
      [] hh.pc = "awaitVerify" -> OnVerify(Consume(hh, reply), reply)
      [] hh.pc = "awaitList" -> OnStripeList(Consume(hh, reply), reply, now)
      [] hh.pc = "awaitGhlList" -> OnGhlList(Consume(hh, reply), reply)
      [] hh.pc = "awaitOrders" -> OnOrders(Consume(hh, reply), reply)
      [] hh.pc = "awaitCancel" -> OnCancel(Consume(hh, reply), reply)
      [] hh.pc = "awaitSingle" -> OnSingle(Consume(hh, reply), reply)
      [] OTHER -> hh

LocalsSharedResults(rs, i, new) ==
    [j \in DOMAIN rs |-> IF j = i THEN new ELSE [rs[j] EXCEPT !.results = new.results]]

(* The locals of run i after a step; those of the other runs are theirs. *)
Locals(rs, i, new) == [rs EXCEPT ![i] = new]

Idle == NewHandler("flagGated", BaseRequest)

ConcInit ==
    /\ h = Idle
    /\ \E variant \in Variants :
          runs \in [1..NumRequests -> {NewHandler(variant, req) : req \in ConcRequests(variant)}]
    /\ inbox = [i \in 1..NumRequests |-> <<>>]

ConcReceive ==
    \E i \in DOMAIN runs :
        /\ runs[i].pc = "start"
        /\ runs' = Locals(runs, i, OnRequest(runs[i]))
        /\ UNCHANGED <<h, inbox>>

ConcDeliver ==
    \E i \in DOMAIN runs : \E reply \in RepliesFor(runs[i].pc) : \E now \in ConcNows :
        /\ runs' = Locals(runs, i, Dispatch(runs[i], reply, now))
        /\ inbox' = [inbox EXCEPT ![i] = Append(@, [reply |-> reply, now |-> now])]
        /\ UNCHANGED h

ConcNext ==
    \/ ConcReceive
    \/ ConcDeliver

SpecConc == ConcInit /\ [][ConcNext]_vars

(***************************************************************************)
(* One request under fairness: every outbound call is awaited and          *)
(* eventually returns or fails, and the request callback runs once the     *)
(* request has arrived.  The replies are one of each kind the handler      *)
(* tells apart at each await.                                              *)
(***************************************************************************)
BareContact == [id |-> "contact_1", customFields |-> <<>>]

LiveReplies(pc) ==
    CASE pc = "awaitContact" ->
             {OkReply([traceId |-> "t", contact |-> c]) : c \in {ConcContact, BareContact}}
                 \cup {OkReply(MalformedData), HttpError(404), NetworkError}
      [] pc = "awaitVerify" ->
             {OkReply([traceId |-> "t", contact |-> ConcContact]), HttpError(404), NetworkError}
      [] pc = "awaitList" ->
             {OkReply([object |-> "list", data |-> l]) : l \in ConcLists \cup {<<>>}}
                 \cup {OkReply(MalformedData), HttpError(500)}
      [] pc = "awaitGhlList" ->
             {OkReply([traceId |-> "t", subscriptions |-> l]) : l \in ConcLists \cup {<<>>}}
                 \cup {OkReply(MalformedData), HttpError(404), NetworkError}
      [] pc = "awaitOrders" ->
             {OkReply([traceId |-> "t", orders |-> l]) : l \in {ConcOrders, <<>>}}
                 \cup {OkReply(MalformedData), NetworkError}
      [] pc = "awaitCancel" -> CancelReplies
      [] pc = "awaitSingle" -> CancelReplies
      [] OTHER -> {}

Deliver ==
    /\ \E reply \in LiveReplies(h.pc) : \E now \in Nows : h' = Dispatch(h, reply, now)
    /\ UNCHANGED <<runs, inbox>>

LiveNext ==
    \/ Receive
    \/ Deliver

FairSpec == Init /\ [][LiveNext]_vars /\ WF_vars(LiveNext)

(***************************************************************************)
(* Vocabulary of the properties, stated on the request, the logs and the   *)
(* response, independently of the handler's own helpers.                   *)
(***************************************************************************)
Done == h.pc = "done"

Response == h.responses[1]

Aggregated == Done /\ h.listed /\ Len(h.subscriptions) > 0

NoCustomerId == ~("customerId" \in DOMAIN h.req) \/ h.req.customerId = ""

CancelCalls == {i \in DOMAIN h.calls : h.calls[i].op = "cancelSubscription"}

CancelledIds == {h.calls[i].arg : i \in CancelCalls}

CancelReplyKinds == {h.replies[i] : i \in CancelCalls \cap DOMAIN h.replies}

Cancellable(sub) == sub.status \in CancellableStatusSet

FlagAbsent == h.variant = "flagGated" /\ ~("cancelInStripe" \in DOMAIN h.req)

FlagIs(b) == h.variant = "flagGated" /\ "cancelInStripe" \in DOMAIN h.req /\ h.req.cancelInStripe = b

(* ceil((periodEnd - now) / 86400), by its defining inequalities. *)
RefDays(periodEnd, now) ==
    CHOOSE d \in -3..3 : d * 86400 >= periodEnd - now /\ (d - 1) * 86400 < periodEnd - now

RefContributors(subs) ==
    {i \in DOMAIN subs : Cancellable(subs[i]) /\ "current_period_end" \in DOMAIN subs[i]}

RefGraceDays(subs, now) ==
    LET days == {RefDays(subs[i].current_period_end, now) : i \in RefContributors(subs)} \cup {0}
    IN  CHOOSE d \in days : \A e \in days : d >= e

RemoveAt(s, i) == [j \in 1..(Len(s) - 1) |-> IF j < i THEN s[j] ELSE s[j + 1]]

(***************************************************************************)
(* C1: a request without customerId (absent or empty) is answered with     *)
(* HTTP 400 and success=false, and no outbound call is made for it.        *)
(***************************************************************************)
C1_MissingCustomerId400 ==
    NoCustomerId =>
        /\ h.calls = <<>>
        /\ h.pc # "start" => /\ Done
                             /\ Len(h.responses) = 1
                             /\ Response.status = 400
                             /\ Response.success = FALSE

C1_Witness == Done /\ "customerId" \in DOMAIN h.req /\ h.req.customerId = "" /\ Response.status = 400

(***************************************************************************)
(* C2: whenever a cancellation was attempted and the request is answered,  *)
(* success is true iff every attempted cancellation succeeded, and one     *)
(* failed cancellation makes the status 207, also for the single explicit  *)
(* subscriptionId.  The code answers 500 on that path.                     *)
(***************************************************************************)
C2_FailureIs207 ==
    (Done /\ CancelCalls # {}) =>
        /\ Response.success = (CancelReplyKinds \subseteq {"ok"})
        /\ ~(CancelReplyKinds \subseteq {"ok"}) => Response.status = 207

(***************************************************************************)
(* C3: in the grace-period variants accessDaysRemaining is the maximum of  *)
(* 0 and of ceil((periodEnd - now)/86400) over the listed subscriptions    *)
(* with a cancellable status and a period end; when none of these ends in  *)
(* the future it is 0 and accessEndDate is null.                           *)
(***************************************************************************)
C3_GraceDays ==
    (Aggregated /\ h.variant \in GraceVariants) =>
        /\ Response.accessDaysRemaining = RefGraceDays(h.subscriptions, h.now)
        /\ (\A i \in RefContributors(h.subscriptions) :
                h.subscriptions[i].current_period_end <= h.now)
             => /\ Response.accessDaysRemaining = 0
                /\ Response.accessEndDate = NullValue

C3_Witness ==
    /\ Aggregated /\ h.variant \in GraceVariants
    /\ Len(h.subscriptions) = 2
    /\ Response.accessDaysRemaining = 1
    /\ \E i \in RefContributors(h.subscriptions) : h.subscriptions[i].current_period_end = 200001
    /\ \E i \in RefContributors(h.subscriptions) : h.subscriptions[i].current_period_end < h.now

(***************************************************************************)
(* C4: a listed subscription whose status is outside the cancellable set   *)
(* never gets a cancellation call, and the grace period is what it would   *)
(* be without that subscription in the listing.                            *)
(***************************************************************************)
C4_SkippedStatus ==
    \A i \in DOMAIN h.subscriptions :
        ~Cancellable(h.subscriptions[i]) =>
            /\ h.subscriptions[i].id \notin CancelledIds
            /\ h.variant \in GraceVariants =>
                 LET without == GracePeriod(RemoveAt(h.subscriptions, i), h.now)
                 IN  /\ h.accessDaysRemaining = without.accessDaysRemaining
                     /\ h.accessEndDate = without.accessEndDate

C4_Witness ==
    /\ Aggregated /\ h.variant = "alwaysCancel"
    /\ \E i \in DOMAIN h.subscriptions :
          /\ ~Cancellable(h.subscriptions[i])
          /\ "current_period_end" \in DOMAIN h.subscriptions[i]
          /\ h.subscriptions[i].current_period_end > h.now
    /\ CancelCalls # {}

(***************************************************************************)
(* C5 as stated: in every variant that cancels, every listed subscription  *)
(* with a status of the cancellable set gets a cancellation call and an    *)
(* outcome, 'incomplete' included in the CRM-linked variant.               *)
(***************************************************************************)
Cancelling == h.variant # "flagGated" \/ FlagIs(TRUE)

HasCallAndOutcome(sub) ==
    /\ sub.id \in CancelledIds
    /\ \E k \in DOMAIN h.results : h.results[k].subscriptionId = sub.id

C5_EveryCancellableCancelled ==
    (Aggregated /\ Cancelling) =>
        \A i \in DOMAIN h.subscriptions :
            Cancellable(h.subscriptions[i]) => HasCallAndOutcome(h.subscriptions[i])

(***************************************************************************)
(* C5 amended: that holds in the Stripe variants; in the CRM-linked        *)
(* variant the cancelled statuses are active, trialing, past_due and       *)
(* unpaid, and an 'incomplete' subscription gets no call and no outcome.   *)
(***************************************************************************)
C5_PerVariantStatusSet ==
    (Aggregated /\ Cancelling) =>
        \A i \in DOMAIN h.subscriptions :
            LET sub == h.subscriptions[i]
            IN  IF h.variant = "crmLinked"
                THEN IF sub.status \in {"active", "trialing", "past_due", "unpaid"}
                     THEN HasCallAndOutcome(sub)
                     ELSE sub.id \notin CancelledIds
                            /\ \A k \in DOMAIN h.results : h.results[k].subscriptionId # sub.id
                ELSE Cancellable(sub) => HasCallAndOutcome(sub)

C5_Witness ==
    /\ Aggregated /\ h.variant = "crmLinked"
    /\ \E i, j \in DOMAIN h.subscriptions :
          /\ h.subscriptions[i].status = "incomplete"
          /\ h.subscriptions[j].status = "unpaid"
    /\ Len(h.results) = 1

C7_CalculateOnly ==
    FlagIs(FALSE) =>
        /\ CancelCalls = {}
        /\ \A i \in DOMAIN h.calls : h.calls[i].op \in {"getContact", "listSubscriptions"}
        /\ Aggregated => /\ Response.status = 200
                         /\ Response.success = TRUE
                         /\ Response.canceledCount = 0
                         /\ Response.accessDaysRemaining = RefGraceDays(h.subscriptions, h.now)
                         /\ Response.revokeAccessIn = Response.accessDaysRemaining

C7_Witness ==
    /\ Aggregated /\ FlagIs(FALSE)
    /\ \E i \in DOMAIN h.subscriptions : Cancellable(h.subscriptions[i])
    /\ Response.accessDaysRemaining = 1
    /\ Response.accessEndDate # NullValue

(***************************************************************************)
(* C8: when the CRM lookup reports that the subscriber does not exist (a   *)
(* not-found answer, or an answer without a contact record) the response   *)
(* is 404 with success=false in every variant, and no other call follows.  *)
(* The Stripe variants rethrow the not-found answer and respond 500.       *)
(***************************************************************************)
LookupSaidMissing ==
    /\ Len(h.calls) >= 1 /\ h.calls[1].op = "getContact"
    /\ Len(h.replies) >= 1 /\ h.replies[1] \in {"notFound", "empty"}

C8_UnknownSubscriber404 ==
    LookupSaidMissing =>
        /\ Done
        /\ Response.status = 404
        /\ Response.success = FALSE
        /\ Len(h.calls) = 1

(***************************************************************************)
(* C9: when the listing of a resolved customer yields zero subscriptions,  *)
(* the response is 404 with success=false and no cancellation call is      *)
(* issued.                                                                 *)
(***************************************************************************)
C9_EmptyListing404 ==
    (h.listed /\ Len(h.subscriptions) = 0) =>
        /\ Done
        /\ Response.status = 404
        /\ Response.success = FALSE
        /\ CancelCalls = {}

C9_Witness ==
    /\ Done /\ h.listed /\ Len(h.subscriptions) = 0
    /\ h.variant \in StripeVariants
    /\ h.replies[Len(h.replies)] = "ok"

(***************************************************************************)
(* C10 as stated: with at least one listed subscription and none of a      *)
(* cancellable status the response is 404.                                 *)
(***************************************************************************)
NothingEligible ==
    Aggregated /\ \A i \in DOMAIN h.subscriptions : ~Cancellable(h.subscriptions[i])

C10_NothingEligible404 == NothingEligible => Response.status = 404

(***************************************************************************)
(* C10 amended: with at least one listed subscription and none of a        *)
(* cancellable status the response is 200 with success=true and            *)
(* canceledCount=0, no cancellation being attempted; and 200 is returned   *)
(* only when every attempted cancellation succeeded (possibly none).       *)
(***************************************************************************)
C10_NothingEligible200 ==
    /\ NothingEligible => /\ Response.status = 200
                          /\ Response.success = TRUE
                          /\ Response.canceledCount = 0
                          /\ CancelCalls = {}
    /\ (Done /\ Response.status = 200) => CancelReplyKinds \subseteq {"ok"}

C10_Witness == NothingEligible /\ Len(h.subscriptions) = 2 /\ h.variant = "crmLinked"

(***************************************************************************)
(* The status policy of each implementation, and the listed subscriptions  *)
(* it selects, in listing order.                                           *)
(***************************************************************************)
PolicySet ==
    IF h.variant = "crmLinked"
    THEN {"active", "trialing", "past_due", "unpaid"}
    ELSE CancellableStatusSet

Eligible == {i \in DOMAIN h.subscriptions : h.subscriptions[i].status \in PolicySet}

(* The kind of the reply to the cancellation call behind the k-th result:  *)
(* on the listing path the cancellation calls are the last calls.          *)
ResultReplyKind(k) == h.replies[Len(h.replies) - Len(h.results) + k]

(***************************************************************************)
(* C11: whatever the pattern of failed cancellation calls, a request that  *)
(* cancels a listing ends with exactly one outcome per subscription of     *)
(* cancellable status (success flag, message, and the error code when the  *)
(* remote answered with one), and it is answered 200 or 207, never 500.    *)
(* Cancellable is the status policy of the implementation.                 *)
(***************************************************************************)
C11_FailuresIsolated ==
    (Aggregated /\ Cancelling) =>
        /\ Len(h.results) = Cardinality(Eligible)
        /\ \A i \in Eligible :
              Cardinality({k \in DOMAIN h.results :
                              h.results[k].subscriptionId = h.subscriptions[i].id}) = 1
        /\ \A k \in DOMAIN h.results :
              /\ {"success", "message"} \subseteq DOMAIN h.results[k]
              /\ h.results[k].success = (ResultReplyKind(k) = "ok")
              /\ ("errorCode" \in DOMAIN h.results[k]) = (ResultReplyKind(k) = "notFound")
              /\ ResultReplyKind(k) = "notFound" => h.results[k].errorCode = 404
        /\ Response.status \in {200, 207}

C11_Witness ==
    /\ Aggregated /\ Cancelling
    /\ Len(h.results) = 2
    /\ ~h.results[1].success /\ h.results[2].success
    /\ Response.status = 207

(***************************************************************************)
(* C12: an unexpected failure (network error, upstream error other than    *)
(* not-found) of the CRM lookup or of a listing call, the fallback listing *)
(* through the orders included, ends the request with HTTP 500 carrying    *)
(* the error's message, and no call follows it.  The fallback listing      *)
(* swallows the error and the request is answered 404.                     *)
(***************************************************************************)
ErrorMessage(kind) ==
    IF kind = "networkError" THEN "Network Error" ELSE "Request failed with status code"

C12_UnexpectedFailure500 ==
    \A i \in DOMAIN h.replies :
        (/\ h.calls[i].op \in {"getContact", "listSubscriptions", "listOrders"}
         /\ h.replies[i] \in {"networkError", "httpError"})
        => /\ Done
           /\ Response.status = 500
           /\ Response.message = ErrorMessage(h.replies[i])
           /\ Len(h.calls) = i

(***************************************************************************)
(* C13: in the custom-field variants, when the subscriber exists but no    *)
(* billing-customer identifier is resolved from its custom attributes, the *)
(* response is 404 with success=false and a message asking to populate the *)
(* field, and the billing system is never called.                          *)
(***************************************************************************)
PopulateMessages ==
    {"Stripe Customer ID not found in GoHighLevel contact. Please ensure the \"Stripe Customer Id\" custom field is populated.",
     "Stripe Customer ID not found in GoHighLevel contact. Please ensure a custom field contains a Stripe Customer ID (starts with cus_)."}

SubscriberWithoutBillingId ==
    /\ h.variant \in StripeVariants
    /\ Len(h.replies) >= 1 /\ h.replies[1] = "ok"
    /\ h.stripeCustomerId = <<>>

C13_NoBillingId404 ==
    SubscriberWithoutBillingId =>
        /\ Done
        /\ Response.status = 404
        /\ Response.success = FALSE
        /\ Response.error \in PopulateMessages
        /\ \A i \in DOMAIN h.calls : h.calls[i].api # "stripe"
        /\ Len(h.calls) = 1

C13_Witness == SubscriberWithoutBillingId /\ Done /\ h.variant = "customField"

(***************************************************************************)
(* C14: in a cancelling request totalSubscriptions is the number of listed *)
(* subscriptions, the results hold exactly one entry per subscription of   *)
(* cancellable status and none for a skipped one, and canceledCount is the *)
(* number of results with success=true, so that                            *)
(* canceledCount <= length(results) <= totalSubscriptions.                 *)
(***************************************************************************)
ReportedResults ==
    IF "results" \in DOMAIN Response THEN Response.results
    ELSE IF "stripeCancellation" \in DOMAIN Response THEN Response.stripeCancellation
    ELSE <<>>

C14_Counts ==
    (Aggregated /\ Cancelling) =>
        /\ Response.totalSubscriptions = Len(h.subscriptions)
        /\ ReportedResults = h.results
        /\ {ReportedResults[k].subscriptionId : k \in DOMAIN ReportedResults}
              = {h.subscriptions[i].id : i \in Eligible}
        /\ Len(ReportedResults) = Cardinality(Eligible)
        /\ Response.canceledCount
              = Cardinality({k \in DOMAIN ReportedResults : ReportedResults[k].success})
        /\ Response.canceledCount <= Len(ReportedResults)
        /\ Len(ReportedResults) <= Response.totalSubscriptions

C14_Witness ==
    /\ Aggregated /\ h.variant = "alwaysCancel"
    /\ Len(h.subscriptions) = 2
    /\ h.subscriptions[1].status = "active" /\ h.subscriptions[2].status = "canceled"
    /\ Response.totalSubscriptions = 2
    /\ Response.canceledCount = 1
    /\ Len(Response.results) = 1

(***************************************************************************)
(* C15: accessEndDate is the date of the largest period end among the      *)
(* listed subscriptions of cancellable status with a period end in the     *)
(* future, also when two of them round to the same number of days, in      *)
(* either order.  The code keeps the first of two that round alike.        *)
(***************************************************************************)
FutureEnds ==
    {h.subscriptions[i].current_period_end : i \in
        {j \in RefContributors(h.subscriptions) : h.subscriptions[j].current_period_end > h.now}}

C15_EndDateOfMaxPeriodEnd ==
    (Aggregated /\ h.variant \in GraceVariants /\ FutureEnds # {}) =>
        Response.accessEndDate =
            [iso8601 |-> 1000 * (CHOOSE e \in FutureEnds : \A f \in FutureEnds : e >= f)]

(***************************************************************************)
(* C16: requests served concurrently, interleaved at every await, share no *)
(* mutable state: the response and the outbound calls of each run are      *)
(* those of the same request served alone with the same replies.           *)
(***************************************************************************)
RECURSIVE Replay(_, _, _)
Replay(hh, log, k) ==
    IF k > Len(log) THEN hh
    ELSE Replay(Dispatch(hh, log[k].reply, log[k].now), log, k + 1)

Alone(i) ==
    LET fresh == NewHandler(runs[i].variant, runs[i].req)
    IN  IF runs[i].pc = "start" THEN fresh ELSE Replay(OnRequest(fresh), inbox[i], 1)

InFlight == {i \in DOMAIN h.calls : i > Len(h.replies)}

ListingPos(id) == CHOOSE k \in DOMAIN h.subscriptions : h.subscriptions[k].id = id

LoopCalls == IF h.listed THEN CancelCalls ELSE {}

NthLoopCall(n) == CHOOSE i \in LoopCalls : Cardinality({j \in LoopCalls : j <= i}) = n

C17_Sequential ==
    /\ Cardinality(InFlight \cap CancelCalls) <= 1
    /\ \A i, j \in CancelCalls : i < j => i \in DOMAIN h.replies
    /\ \A i \in LoopCalls : \E k \in DOMAIN h.subscriptions : h.subscriptions[k].id = h.calls[i].arg
    /\ \A i, j \in LoopCalls : i < j => ListingPos(h.calls[i].arg) < ListingPos(h.calls[j].arg)
    /\ Len(h.results) = Cardinality(LoopCalls \ InFlight)
    /\ \A n \in DOMAIN h.results : h.results[n].subscriptionId = h.calls[NthLoopCall(n)].arg

C17_Witness ==
    /\ h.pc = "awaitCancel"
    /\ Cardinality(CancelCalls) = 2
    /\ Len(h.results) = 1 /\ ~h.results[1].success
    /\ InFlight \cap CancelCalls # {}

(***************************************************************************)
(* C18: once a 400 or a 404 has been answered the handler has stopped: no  *)
(* call is pending and none is issued afterwards; and a cancellation call  *)
(* is only issued after the subscriber was resolved and a non-empty        *)
(* listing was obtained.  As stated for every request this fails: the      *)
(* CRM-linked variant cancels an explicitly named subscription right after *)
(* validation, without resolving or listing anything.                      *)
(***************************************************************************)
ShortCircuited == h.responses # <<>> /\ Response.status \in {400, 404}

Stopped == Done /\ Len(h.responses) = 1 /\ InFlight = {} /\ CancelCalls = {}

ResolvedAndListed(i) ==
    /\ h.calls[1].op = "getContact" /\ h.replies[1] = "ok"
    /\ \E j \in 2..(i - 1) : h.calls[j].op \in {"listSubscriptions", "listOrders"} /\ h.replies[j] = "ok"
    /\ h.listed /\ Len(h.subscriptions) > 0

NamesSubscription ==
    h.variant = "crmLinked" /\ "subscriptionId" \in DOMAIN h.req /\ h.req.subscriptionId # ""

C18_CancelOnlyAfterListing ==
    /\ ShortCircuited => Stopped
    /\ \A i \in CancelCalls : ResolvedAndListed(i)

(* C18, amended: the same, except for the explicit-subscriptionId path of  *)
(* the CRM-linked variant, whose only call is the one cancellation.        *)
C18_CancelOnlyAfterListingOrNamed ==
    /\ ShortCircuited => Stopped
    /\ \A i \in CancelCalls :
          IF NamesSubscription
          THEN i = 1 /\ h.calls[i].arg = h.req.subscriptionId /\ ~h.listed
          ELSE ResolvedAndListed(i)

C18_Witness ==
    /\ ShortCircuited /\ Response.status = 404
    /\ h.listed /\ Len(h.calls) >= 2 /\ Len(h.replies) = Len(h.calls)

(***************************************************************************)
(* C19: nothing is retried: a request makes at most one subscriber lookup  *)
(* and at most one call of each listing endpoint, and at most one          *)
(* cancellation call per subscription id, whatever the replies were.       *)
(***************************************************************************)
CallsOf(op) == {i \in DOMAIN h.calls : h.calls[i].op = op}

FailedCalls == {i \in DOMAIN h.replies : h.replies[i] # "ok"}

C19_NoRetry ==
    /\ \A op \in {"getContact", "listSubscriptions", "listOrders"} : Cardinality(CallsOf(op)) <= 1
    /\ \A i, j \in CallsOf("cancelSubscription") : h.calls[i].arg = h.calls[j].arg => i = j
    /\ \A i \in FailedCalls : \A j \in DOMAIN h.calls : j > i => h.calls[j] # h.calls[i]

C19_Witness ==
    /\ Done
    /\ Cardinality(CallsOf("cancelSubscription")) = 2
    /\ CallsOf("cancelSubscription") \subseteq FailedCalls
    /\ Len(h.calls) = 4

(***************************************************************************)
(* C20: in the grace-period variants the grace period is fixed from the    *)
(* one listing before the first cancellation call: while cancellations are *)
(* pending and when the request is answered, accessDaysRemaining and       *)
(* accessEndDate are a function of the listing and of the clock read at    *)
(* listing time only, whatever the cancellation outcomes and whether or    *)
(* not cancellation is performed.                                          *)
(***************************************************************************)
GraceFixed ==
    /\ h.accessDaysRemaining = RefGraceDays(h.subscriptions, h.now)
    /\ (h.accessEndDate = NullValue) <=> (RefGraceDays(h.subscriptions, h.now) = 0)
    /\ h.accessEndDate # NullValue =>
          \E i \in RefContributors(h.subscriptions) :
              /\ RefDays(h.subscriptions[i].current_period_end, h.now)
                    = RefGraceDays(h.subscriptions, h.now)
              /\ h.accessEndDate = [iso8601 |-> 1000 * h.subscriptions[i].current_period_end]

GraceReported ==
    /\ Response.accessDaysRemaining = h.accessDaysRemaining
    /\ Response.accessEndDate = h.accessEndDate

GraceUntouched ==
    /\ h'.accessDaysRemaining = h.accessDaysRemaining
    /\ h'.accessEndDate = h.accessEndDate
    /\ h'.subscriptions = h.subscriptions
    /\ h'.now = h.now

C20_GraceBeforeCancel ==
    /\ [](h.variant \in GraceVariants /\ h.listed /\ Len(h.subscriptions) > 0 =>
            /\ GraceFixed
            /\ Cardinality(CallsOf("listSubscriptions")) = 1
            /\ Done => GraceReported)
    /\ [][h.pc = "awaitCancel" => GraceUntouched]_vars

C20_Witness ==
    /\ Done /\ h.variant \in GraceVariants
    /\ Len(h.results) = 2 /\ h.results[1].success /\ ~h.results[2].success
    /\ "current_period_end" \in DOMAIN h.subscriptions[1]
    /\ h.subscriptions[1].current_period_end = 286400
    /\ Response.accessDaysRemaining = 1
    /\ Response.accessEndDate = [iso8601 |-> 286400000]

(***************************************************************************)
(* C21: in the CRM-linked variant a request with a customerId and a        *)
(* subscriptionId makes exactly one outbound call, the cancellation of     *)
(* that subscriptionId: no subscriber lookup, no listing, no status test;  *)
(* it is answered 200 when the call succeeds and 500 when it fails.        *)
(***************************************************************************)
C21_NamedSubscriptionOnly ==
    (NamesSubscription /\ ~NoCustomerId /\ h.pc # "start") =>
        /\ Len(h.calls) = 1
        /\ h.calls[1].op = "cancelSubscription" /\ h.calls[1].arg = h.req.subscriptionId
        /\ CallsOf("getContact") = {} /\ CallsOf("listSubscriptions") = {} /\ CallsOf("listOrders") = {}
        /\ ~h.listed /\ h.subscriptions = <<>> /\ h.results = <<>>
        /\ Done => /\ Len(h.replies) = 1 /\ Len(h.responses) = 1
                   /\ Response.status = IF h.replies[1] = "ok" THEN 200 ELSE 500
                   /\ Response.success = (h.replies[1] = "ok")
                   /\ Response.subscriptionId = h.req.subscriptionId

C21_Witness ==
    /\ NamesSubscription /\ ~NoCustomerId /\ Done
    /\ h.replies = <<"notFound">>
    /\ Response.status = 500

(***************************************************************************)
(* C22: every request gets exactly one HTTP response: never two, its       *)
(* status is one of 200, 207, 400, 404, 500, the handler stops when it has *)
(* answered, and provided every outbound call returns or fails the         *)
(* response is eventually sent.                                            *)
(***************************************************************************)
StatusCodes == {200, 207, 400, 404, 500}

Answered == Len(h.responses) = 1 /\ Response.status \in StatusCodes

C22_ExactlyOneResponse ==
    /\ [](Len(h.responses) <= 1)
    /\ [](Done <=> Answered)
    /\ [](Done => InFlight = {})
    /\ <>[]Answered

C22_Witness ==
    /\ Answered /\ Done
    /\ Response.status = 207
    /\ Len(h.calls) = 4 /\ Len(h.replies) = 4

(***************************************************************************)
(* C23: in every response that carries the grace period,                   *)
(* accessDaysRemaining, revokeAccessIn and nextStep.waitDays are one and   *)
(* the same non-negative integer, and accessEndDate is null exactly when   *)
(* that integer is 0.                                                      *)
(***************************************************************************)
GraceResponse == Done /\ "accessDaysRemaining" \in DOMAIN Response

C23_GraceFieldsAgree ==
    /\ (Aggregated /\ h.variant \in GraceVariants) => GraceResponse
    /\ GraceResponse =>
          /\ Response.accessDaysRemaining \in Nat
          /\ Response.revokeAccessIn = Response.accessDaysRemaining
          /\ Response.waitDays = Response.accessDaysRemaining
          /\ (Response.accessEndDate = NullValue) <=> (Response.accessDaysRemaining = 0)

C23_Witness ==
    /\ GraceResponse
    /\ \E i \in RefContributors(h.subscriptions) : h.subscriptions[i].current_period_end = h.now
    /\ \A i \in RefContributors(h.subscriptions) : h.subscriptions[i].current_period_end <= h.now
    /\ Response.waitDays = 0
    /\ Response.accessEndDate = NullValue

====
